---------------------------- MODULE Spec2Model ----------------------------
(***************************************************************************)
(* A model of the mongodb-ETL repository: the CSV loader                   *)
(* (scripts/etl_pipeline.py), the interactive cleanup script               *)
(* (scripts/cleanup.py), the daily scheduler (scripts/scheduler.py), the   *)
(* aggregation layer (dashboard/aggregations.py) and the caching of the    *)
(* Streamlit dashboard (dashboard/dashboard.py).                           *)
(*                                                                         *)
(* The components are separate operating-system processes that share only  *)
(* the MongoDB collection analytics.records.  Each gets a specification of *)
(* its own over the same variables:                                        *)
(*   Spec       the loader and the cleanup script working on the collection*)
(*   SpecInsert the loader alone, with insert_many calls that may raise    *)
(*   SpecAgg    the AggregationPipelines methods called on a collection    *)
(*   SpecQuery  the same methods and what they return                      *)
(*   SpecIndex  the index manager                                          *)
(*   SpecDash   the dashboard script's reruns and its two caches           *)
(*   SpecSched  the scheduler's polling loop                               *)
(***************************************************************************)
EXTENDS Integers, Sequences, FiniteSets, TLC

VARIABLES
    col,            \* the documents of analytics.records, in natural (insertion) order
    etl,            \* the loader process: run_etl and the loader it is in
    submitted,      \* history: the insert_many calls of the current loader run,
                    \* with the number of documents each of them wrote
    hist,           \* history: loader runs since the collection was last dropped
    fails,          \* number of insert_many calls that raised so far
    cleanup,        \* the cleanup process: cleanup_duplicates
    agg,            \* the AggregationPipelines method called last
    qres,           \* what that call returned
    clock,          \* the dashboard server's time, in seconds
    dataCache,      \* st.cache_data: per load_* function, when its entry was stored
    resource,       \* st.cache_resource: the AggregationPipelines instance held
    created,        \* number of AggregationPipelines instances constructed
    dash,           \* the dashboard script: where the current rerun is
    shown,          \* what the page displays for each load_* function
    sched,          \* the scheduler process
    idx             \* the index manager process: create_indexes

loaderVars == <<col, etl, submitted, hist, fails, cleanup>>
dashVars == <<clock, dataCache, resource, created, dash, shown>>
aggVars == <<agg, qres>>
otherProcs == <<aggVars, dashVars, sched, idx>>
vars == <<loaderVars, aggVars, dashVars, sched, idx>>

---------------------------------------------------------------------------
(* Bounds of the model.                                                    *)

\* loader runs explored
MaxRuns == 2
\* insert_many calls that may raise
MaxFails == 1
\* how far the dashboard's clock runs, and the step it advances by (seconds)
MaxClock == 400
TickStep == 100
\* polls of the scheduler's loop in a day, days explored, and the longest
\* loader run in polls
DayLen == 3
MaxDays == 4
MaxRunPolls == 3

---------------------------------------------------------------------------
(* Program constants.  BATCH_SIZE (5000) and CHUNK_SIZE (50000) are scaled *)
(* down together with the CSV files below, which hold three rows where the *)
(* real files hold thousands, so that a source still spans several batches.*)

BATCH_SIZE == 2
CHUNK_SIZE == 2

\* ttl=300 of the st.cache_data decorators (dashboard.py 93-149)
TTL == 300

\* the default '02:00' of SCHEDULE_TIME (scheduler.py 14), as a poll of the day
SCHEDULE_TIME == 2

DB_NAME == "analytics"
COLLECTION == "records"

Min(a, b) == IF a <= b THEN a ELSE b

---------------------------------------------------------------------------
(* CSV cells.  A numeric column holds a number, NaN (an empty cell) or,    *)
(* in a damaged file, text that int()/float() cannot convert.              *)

Num(n) == [kind |-> "num", v |-> n]
NaN == [kind |-> "nan", v |-> 0]
Text == [kind |-> "text", v |-> 0]

\* pd.notna(cell)
notna(c) == c.kind # "nan"
\* int(cell) / float(cell) raise ValueError on text
Converts(c) == c.kind # "text"

(* The three CSV files.  A file is "ok", "badrow" (its last row holds a    *)
(* cell that cannot be converted), "unreadable" (pd.read_csv raises) or    *)
(* "missing" (os.path.exists is False).                                    *)
FileStates == {"ok", "badrow", "unreadable", "missing"}

Csv1Rows ==
    << [InvoiceNo |-> "536365", StockCode |-> "85123A", Description |-> "HEART",
        Quantity |-> Num(6), InvoiceDate |-> 1, UnitPrice |-> Num(2),
        CustomerID |-> "17850", Country |-> "UK"],
       [InvoiceNo |-> "536365", StockCode |-> "71053", Description |-> "LANTERN",
        Quantity |-> NaN, InvoiceDate |-> 1, UnitPrice |-> Num(3),
        CustomerID |-> "nan", Country |-> "UK"],
       [InvoiceNo |-> "536370", StockCode |-> "85123A", Description |-> "HEART T-LIGHT",
        Quantity |-> Num(2), InvoiceDate |-> 2, UnitPrice |-> NaN,
        CustomerID |-> "12583", Country |-> "France"] >>

Csv2Rows ==
    << [sale_id |-> "S1", date |-> 1, customer_id |-> "17850", amount |-> Num(10),
        product |-> "Lamp", category |-> "Home", region |-> "North"],
       [sale_id |-> "S2", date |-> 2, customer_id |-> "C7", amount |-> NaN,
        product |-> "Desk", category |-> "Office", region |-> "South"],
       [sale_id |-> "S3", date |-> 2, customer_id |-> "C7", amount |-> Num(4),
        product |-> "Lamp", category |-> "Home", region |-> "South"] >>

Csv3Rows ==
    << [customer_id |-> "17850", name |-> "Ann", email |-> "ann@x", city |-> "Leeds",
        country |-> "UK", signup_date |-> "2020-01-01",
        total_purchases |-> Num(12), avg_order_value |-> NaN],
       [customer_id |-> "C7", name |-> "Bob", email |-> "bob@x", city |-> "Lyon",
        country |-> "France", signup_date |-> "2021-05-05",
        total_purchases |-> NaN, avg_order_value |-> Num(7)] >>

GoodRows(s) == CASE s = 1 -> Csv1Rows [] s = 2 -> Csv2Rows [] s = 3 -> Csv3Rows

\* the numeric cell of a row that a damaged file spoils
Spoil(s, row) ==
    CASE s = 1 -> [row EXCEPT !.Quantity = Text]
      [] s = 2 -> [row EXCEPT !.amount = Text]
      [] s = 3 -> [row EXCEPT !.total_purchases = Text]

\* the rows pd.read_csv yields for source s when its file is in state f
CsvRows(s, f) ==
    LET good == GoodRows(s)
    IN  IF f = "badrow"
        THEN [k \in 1..Len(good) |-> IF k = Len(good) THEN Spoil(s, good[k]) ELSE good[k]]
        ELSE good

---------------------------------------------------------------------------
(* The documents the loaders build.                                        *)

SourceIdPasted(s) == "source1"

\* the 'sourceId' literal of loader s: etl_pipeline.py 62, 125, 190
SourceId(s) == CASE s = 1 -> "source1" [] s = 2 -> "source2" [] s = 3 -> "source3"

\* etl_pipeline.py 54-81; t is datetime.now() of the run
Doc1(row, t) ==
    LET quantity == IF notna(row.Quantity) THEN row.Quantity.v ELSE 0
        unit_price == IF notna(row.UnitPrice) THEN row.UnitPrice.v ELSE 0
    IN  [schemaVersion |-> 1,
         source |-> [name |-> "kaggle_csv", type |-> "csv", sourceId |-> SourceId(1),
                     externalId |-> row.InvoiceNo],
         ingestedAt |-> t,
         eventTime |-> row.InvoiceDate,
         entity |-> [id |-> row.CustomerID, type |-> "customer"],
         metrics |-> [amount |-> unit_price * quantity, count |-> quantity,
                      unitPrice |-> unit_price],
         metadata |-> [description |-> row.Description, stockCode |-> row.StockCode,
                       country |-> row.Country]]

\* etl_pipeline.py 118-143
Doc2(row, t) ==
    LET amount == IF notna(row.amount) THEN row.amount.v ELSE 0
    IN  [schemaVersion |-> 1,
         source |-> [name |-> "sales_csv", type |-> "csv", sourceId |-> SourceId(2),
                     externalId |-> row.sale_id],
         ingestedAt |-> t,
         eventTime |-> row.date,
         entity |-> [id |-> row.customer_id, type |-> "customer"],
         metrics |-> [amount |-> amount, count |-> 1],
         metadata |-> [product |-> row.product, category |-> row.category,
                       region |-> row.region]]

\* etl_pipeline.py 185-210
Doc3(row, t) ==
    [schemaVersion |-> 1,
     source |-> [name |-> "customers_csv", type |-> "csv", sourceId |-> SourceId(3),
                 externalId |-> row.customer_id],
     ingestedAt |-> t,
     eventTime |-> t,
     entity |-> [id |-> row.customer_id, type |-> "customer"],
     metrics |-> [totalPurchases |->
                      IF notna(row.total_purchases) THEN row.total_purchases.v ELSE 0,
                  averageOrderValue |->
                      IF notna(row.avg_order_value) THEN row.avg_order_value.v ELSE 0],
     metadata |-> [name |-> row.name, email |-> row.email, city |-> row.city,
                   country |-> row.country, signup_date |-> row.signup_date]]

BuildDoc(s, row, t) ==
    CASE s = 1 -> Doc1(row, t) [] s = 2 -> Doc2(row, t) [] s = 3 -> Doc3(row, t)

\* whether building the document of a row raises (a cell int()/float() rejects)
RowRaises(s, row) ==
    CASE s = 1 -> (notna(row.Quantity) /\ ~Converts(row.Quantity))
                  \/ (notna(row.UnitPrice) /\ ~Converts(row.UnitPrice))
      [] s = 2 -> notna(row.amount) /\ ~Converts(row.amount)
      [] s = 3 -> (notna(row.total_purchases) /\ ~Converts(row.total_purchases))
                  \/ (notna(row.avg_order_value) /\ ~Converts(row.avg_order_value))

BuildDocs(s, rows, t) == [k \in 1..Len(rows) |-> BuildDoc(s, rows[k], t)]

AnyRowRaises(s, rows) == \E k \in 1..Len(rows) : RowRaises(s, rows[k])

---------------------------------------------------------------------------
(* The collection.  insert_many(docs, ordered=False) either returns, with  *)
(* every document written, or raises; when it raises, any part of the      *)
(* batch may have been written already (a BulkWriteError reports the       *)
(* documents that failed, a network error may follow a completed write).   *)

\* the documents of batch at the positions in S, in batch order
Pick(batch, S) ==
    LET F[k \in 0..Len(batch)] ==
            IF k = 0 THEN << >>
            ELSE IF k \in S THEN Append(F[k - 1], batch[k]) ELSE F[k - 1]
    IN  F[Len(batch)]

InsertedIfNew(c, batch) ==
    c \o SelectSeq(batch, LAMBDA d : \A k \in 1..Len(c) :
                         c[k].source.externalId # d.source.externalId
                         \/ c[k].source.sourceId # d.source.sourceId)

\* col after an insert_many that returned
Inserted(c, batch) == c \o batch

\* col after an insert_many that raised with the positions in S written
PartlyInserted(c, batch, S) == c \o Pick(batch, S)

\* col.drop()
Dropped(c) == << >>

---------------------------------------------------------------------------
(* run_etl and the three loaders (scripts/etl_pipeline.py).                *)

NoTotals == [s \in 1..3 |-> 0]
NoStatus == [s \in 1..3 |-> "pending"]

EtlIdle ==
    [pc |-> "idle", s |-> 0, now |-> 0, file |-> "ok", chunk_num |-> 0, i |-> 0,
     docs |-> << >>, total_inserted |-> 0, totals |-> NoTotals, status |-> NoStatus,
     errors |-> 0, grand_total |-> 0, runs |-> 0, good |-> TRUE]

AfterLoaderAbort(e, s, total, st) ==
    [e EXCEPT !.pc = IF s = 3 \/ st = "missing" THEN "summary" ELSE "load",
              !.s = IF s = 3 \/ st = "missing" THEN 0 ELSE s + 1,
              !.totals[s] = total,
              !.status[s] = st,
              !.grand_total = @ + total,
              !.docs = << >>, !.i = 0, !.chunk_num = 0, !.total_inserted = 0,
              !.file = "ok",
              !.good = e.good /\ st = "loaded" /\ total = Len(GoodRows(s))]

\* the loader that run_etl calls after loader s (etl_pipeline.py 243-250)
AfterLoader(e, s, total, st) ==
    [e EXCEPT !.pc = IF s = 3 THEN "summary" ELSE "load",
              !.s = IF s = 3 THEN 0 ELSE s + 1,
              !.totals[s] = total,
              !.status[s] = st,
              !.grand_total = @ + total,
              !.docs = << >>, !.i = 0, !.chunk_num = 0, !.total_inserted = 0,
              !.file = "ok",
              !.good = e.good /\ st = "loaded" /\ total = Len(GoodRows(s))]

\* an exception leaves run_etl: the process ends with a traceback
Crashed(e) == [EtlIdle EXCEPT !.runs = e.runs]

\* the 'except Exception' of etl_pipeline.py 92-93: the error is printed and
\* the for loop goes on to the next chunk
ChunkRaised(e) == [e EXCEPT !.chunk_num = @ + 1, !.errors = @ + 1]

BatchRaisedRetry(e) == [e EXCEPT !.errors = @ + 1]

\* the 'except Exception' of etl_pipeline.py 156-157, 223-224: the error is
\* printed and range(0, len(docs), BATCH_SIZE) goes on to the next offset
BatchRaised(e) == [e EXCEPT !.i = @ + BATCH_SIZE, !.errors = @ + 1]

\* python scripts/etl_pipeline.py is started (by hand or by the scheduler)
EtlStart ==
    /\ etl.pc = "idle"
    /\ etl.runs < MaxRuns
    /\ etl' = [EtlIdle EXCEPT !.pc = "load", !.s = 1, !.now = etl.runs + 1,
                              !.runs = etl.runs + 1]
    /\ submitted' = << >>
    /\ UNCHANGED <<otherProcs, col, hist, fails, cleanup>>

\* load_csv_source1 up to the first chunk (etl_pipeline.py 36-48)
Load1Enter(f) ==
    /\ etl.pc = "load" /\ etl.s = 1
    /\ etl' = CASE f = "missing" -> AfterLoader(etl, 1, 0, "missing")
                 [] f = "unreadable" -> Crashed(etl)
                 [] OTHER -> [etl EXCEPT !.pc = "chunk", !.file = f, !.chunk_num = 0,
                                         !.total_inserted = 0]
    /\ hist' = IF f = "unreadable" THEN [hist EXCEPT !.clean = FALSE] ELSE hist
    /\ submitted' = IF f = "unreadable" THEN << >> ELSE submitted
    /\ UNCHANGED <<otherProcs, col, fails, cleanup>>

\* the rows of chunk number n of a file read with chunksize=CHUNK_SIZE
Chunk(rows, n) == SubSeq(rows, n * CHUNK_SIZE + 1, Min((n + 1) * CHUNK_SIZE, Len(rows)))

HasChunk(rows, n) == n * CHUNK_SIZE < Len(rows)

\* a row of the chunk cannot be converted: the ValueError leaves load_csv_source1
Load1ChunkRaises ==
    /\ etl.pc = "chunk"
    /\ HasChunk(CsvRows(1, etl.file), etl.chunk_num)
    /\ AnyRowRaises(1, Chunk(CsvRows(1, etl.file), etl.chunk_num))
    /\ etl' = Crashed(etl)
    /\ submitted' = << >>
    /\ hist' = [hist EXCEPT !.clean = FALSE]
    /\ UNCHANGED <<otherProcs, col, fails, cleanup>>

\* etl_pipeline.py 84-91: the chunk's insert_many returns
Load1InsertOk ==
    /\ etl.pc = "chunk"
    /\ HasChunk(CsvRows(1, etl.file), etl.chunk_num)
    /\ ~AnyRowRaises(1, Chunk(CsvRows(1, etl.file), etl.chunk_num))
    /\ LET docs == BuildDocs(1, Chunk(CsvRows(1, etl.file), etl.chunk_num), etl.now)
       IN  /\ docs # << >>
           /\ col' = Inserted(col, docs)
           /\ submitted' = Append(submitted, [s |-> 1, n |-> etl.chunk_num, docs |-> docs,
                                            raised |-> FALSE, written |-> Len(docs)])
           /\ etl' = [etl EXCEPT !.chunk_num = @ + 1,
                                 !.total_inserted = @ + Len(docs)]
    /\ UNCHANGED <<otherProcs, hist, fails, cleanup>>

\* etl_pipeline.py 92-93: the chunk's insert_many raises, S written
Load1InsertFail(S) ==
    /\ etl.pc = "chunk"
    /\ fails < MaxFails
    /\ HasChunk(CsvRows(1, etl.file), etl.chunk_num)
    /\ ~AnyRowRaises(1, Chunk(CsvRows(1, etl.file), etl.chunk_num))
    /\ LET docs == BuildDocs(1, Chunk(CsvRows(1, etl.file), etl.chunk_num), etl.now)
       IN  /\ docs # << >>
           /\ S \subseteq 1..Len(docs)
           /\ col' = PartlyInserted(col, docs, S)
           /\ submitted' = Append(submitted, [s |-> 1, n |-> etl.chunk_num, docs |-> docs,
                                            raised |-> TRUE, written |-> Cardinality(S)])
           /\ etl' = ChunkRaised(etl)
    /\ fails' = fails + 1
    /\ hist' = [hist EXCEPT !.clean = FALSE]
    /\ UNCHANGED <<otherProcs, cleanup>>

\* etl_pipeline.py 95-97: the chunks are used up
Load1Done ==
    /\ etl.pc = "chunk"
    /\ ~HasChunk(CsvRows(1, etl.file), etl.chunk_num)
    /\ etl' = AfterLoader(etl, 1, etl.total_inserted, "loaded")
    /\ UNCHANGED <<otherProcs, col, submitted, hist, fails, cleanup>>

BatchDropsLast(docs, i) == SubSeq(docs, i + 1, Min(i + BATCH_SIZE - 1, Len(docs)))

\* docs[i:i+BATCH_SIZE] for the offset i of range(0, len(docs), BATCH_SIZE)
Batch(docs, i) == SubSeq(docs, i + 1, Min(i + BATCH_SIZE, Len(docs)))

\* load_csv_source2 / load_csv_source3 up to the batch loop
\* (etl_pipeline.py 100-146, 167-213)
LoadEnter(s, f) ==
    /\ s \in {2, 3}
    /\ etl.pc = "load" /\ etl.s = s
    /\ etl' = CASE f = "missing" -> AfterLoader(etl, s, 0, "missing")
                 [] f = "unreadable" \/ AnyRowRaises(s, CsvRows(s, f)) ->
                        \* 'except Exception' of line 159 / 226: "Error reading CSV"
                        AfterLoader(etl, s, 0, "error")
                 [] OTHER -> [etl EXCEPT !.pc = "batch", !.file = f, !.i = 0,
                                         !.docs = BuildDocs(s, CsvRows(s, f), etl.now),
                                         !.total_inserted = 0]
    /\ UNCHANGED <<otherProcs, col, submitted, hist, fails, cleanup>>

\* etl_pipeline.py 147-155, 214-222: the batch's insert_many returns
BatchInsertOk(s) ==
    /\ s \in {2, 3}
    /\ etl.pc = "batch" /\ etl.s = s
    /\ etl.i < Len(etl.docs)
    /\ LET batch == Batch(etl.docs, etl.i)
       IN  /\ col' = Inserted(col, batch)
           /\ submitted' = Append(submitted, [s |-> s, n |-> etl.i, docs |-> batch,
                                            raised |-> FALSE, written |-> Len(batch)])
           /\ etl' = [etl EXCEPT !.i = @ + BATCH_SIZE,
                                 !.total_inserted = @ + Len(batch)]
    /\ UNCHANGED <<otherProcs, hist, fails, cleanup>>

\* etl_pipeline.py 156-157, 223-224: the batch's insert_many raises, S written
BatchInsertFail(s, S) ==
    /\ s \in {2, 3}
    /\ etl.pc = "batch" /\ etl.s = s
    /\ fails < MaxFails
    /\ etl.i < Len(etl.docs)
    /\ LET batch == Batch(etl.docs, etl.i)
       IN  /\ S \subseteq 1..Len(batch)
           /\ col' = PartlyInserted(col, batch, S)
           /\ submitted' = Append(submitted, [s |-> s, n |-> etl.i, docs |-> batch,
                                            raised |-> TRUE, written |-> Cardinality(S)])
           /\ etl' = BatchRaised(etl)
    /\ fails' = fails + 1
    /\ hist' = [hist EXCEPT !.clean = FALSE]
    /\ UNCHANGED <<otherProcs, cleanup>>

\* etl_pipeline.py 162-164, 229-231: the batches are used up
BatchDone(s) ==
    /\ s \in {2, 3}
    /\ etl.pc = "batch" /\ etl.s = s
    /\ etl.i >= Len(etl.docs)
    /\ etl' = AfterLoader(etl, s, etl.total_inserted, "loaded")
    /\ UNCHANGED <<otherProcs, col, submitted, hist, fails, cleanup>>

\* etl_pipeline.py 252-271: the summary is printed, with collStats' document
\* count, and the process ends
EtlSummary ==
    /\ etl.pc = "summary"
    /\ etl' = [EtlIdle EXCEPT !.runs = etl.runs]
    /\ submitted' = << >>
    /\ hist' = [k |-> hist.k + 1, clean |-> hist.clean /\ etl.good]
    /\ UNCHANGED <<otherProcs, col, fails, cleanup>>

---------------------------------------------------------------------------
(* cleanup_duplicates (scripts/cleanup.py).  The operator's response is a  *)
(* sequence of characters.                                                 *)

\* str.upper() on one character
UpperChar(c) ==
    CASE c = "t" -> "T" [] c = "a" -> "A" [] c = "k" -> "K"
      [] c = "n" -> "N" [] c = "i" -> "I" [] c = "e" -> "E"
      [] OTHER -> c

\* response.upper()
upper(r) == [k \in 1..Len(r) |-> UpperChar(r[k])]

TAK == <<"T", "A", "K">>

\* what the operator may type at the prompt
Responses ==
    { <<"T", "A", "K">>, <<"t", "a", "k">>, <<"T", "a", "k">>, <<"n", "i", "e">>,
      <<"T", "A", "K", " ">> }

ConfirmsExactOnly(response) == response = TAK

\* the test of cleanup.py 26
Confirms(response) == upper(response) = TAK

CleanupIdle == [pc |-> "idle", response |-> << >>, message |-> "none"]

\* cleanup.py 10-22: connect, count and print the number of documents, print
\* the question
CleanupStart ==
    /\ cleanup.pc = "idle"
    /\ cleanup' = [cleanup EXCEPT !.pc = "prompt", !.message = "none"]
    /\ UNCHANGED <<otherProcs, col, etl, submitted, hist, fails>>

\* cleanup.py 24: input() returns what the operator typed
CleanupInput(r) ==
    /\ cleanup.pc = "prompt"
    /\ cleanup' = [cleanup EXCEPT !.pc = "answered", !.response = r]
    /\ UNCHANGED <<otherProcs, col, etl, submitted, hist, fails>>

\* cleanup.py 26-32: the response confirms; the collection is dropped
CleanupDrop ==
    /\ cleanup.pc = "answered"
    /\ Confirms(cleanup.response)
    /\ col' = Dropped(col)
    /\ cleanup' = [CleanupIdle EXCEPT !.message = "Kolekcja usunieta"]
    /\ hist' = [k |-> 0, clean |-> etl.pc = "idle"]
    /\ UNCHANGED <<otherProcs, etl, submitted, fails>>

\* cleanup.py 26, 34-35: any other response
CleanupCancel ==
    /\ cleanup.pc = "answered"
    /\ ~Confirms(cleanup.response)
    /\ cleanup' = [CleanupIdle EXCEPT !.message = "Anulowano"]
    /\ UNCHANGED <<otherProcs, col, etl, submitted, hist, fails>>

---------------------------------------------------------------------------
(* AggregationPipelines (dashboard/aggregations.py).  A method is the      *)
(* sequence of calls it makes on self.col; an aggregate call is the list   *)
(* of its pipeline's stages.                                               *)

KpiMethods ==
    <<"kpi_total_revenue", "kpi_total_orders", "kpi_unique_customers",
      "kpi_average_order_value", "kpi_total_items_sold", "kpi_unique_countries">>

ListMethods ==
    <<"top_products", "top_countries", "top_customers", "daily_revenue",
      "monthly_revenue", "revenue_by_source", "customers_by_country",
      "order_value_distribution", "customer_segmentation", "product_performance">>

Elems(seq) == {seq[k] : k \in 1..Len(seq)}

Methods == Elems(KpiMethods) \cup Elems(ListMethods) \cup {"get_all_kpi", "get_all_aggregations"}

PipelineWithOut(m) == <<"$group", "$out">>

\* the stages of the pipeline that method m hands to self.col.aggregate
Pipeline(m) ==
    CASE m = "kpi_total_revenue" -> <<"$group">>
      [] m = "kpi_unique_customers" -> <<"$group", "$count">>
      [] m = "kpi_average_order_value" -> <<"$group">>
      [] m = "kpi_total_items_sold" -> <<"$group">>
      [] m = "kpi_unique_countries" -> <<"$match", "$group", "$count">>
      [] m = "top_products" -> <<"$match", "$group", "$sort", "$limit", "$project">>
      [] m = "top_countries" -> <<"$match", "$group", "$sort", "$limit", "$project">>
      [] m = "top_customers" -> <<"$group", "$sort", "$limit", "$project">>
      [] m = "daily_revenue" -> <<"$group", "$sort", "$limit", "$project">>
      [] m = "monthly_revenue" -> <<"$group", "$sort", "$project">>
      [] m = "revenue_by_source" -> <<"$group", "$sort", "$project">>
      [] m = "customers_by_country" -> <<"$match", "$group", "$project", "$sort">>
      [] m = "order_value_distribution" -> <<"$bucket", "$project">>
      [] m = "customer_segmentation" -> <<"$group", "$addFields", "$group", "$project">>
      [] m = "product_performance" ->
             <<"$match", "$group", "$addFields", "$sort", "$limit", "$project">>

\* the call that a method other than the two get_all_* makes on self.col
ColCall(m) ==
    IF m = "kpi_total_orders"
    THEN [op |-> "count_documents", stages |-> << >>]
    ELSE [op |-> "aggregate", stages |-> Pipeline(m)]

\* the calls on self.col that method m makes, in order
ColCalls(m) ==
    CASE m = "get_all_kpi" -> [k \in 1..Len(KpiMethods) |-> ColCall(KpiMethods[k])]
      [] m = "get_all_aggregations" ->
             [k \in 1..Len(ListMethods) |-> ColCall(ListMethods[k])]
      [] OTHER -> <<ColCall(m)>>

(* The stages of MongoDB that write: $out replaces the collection it names *)
(* with the rows the pipeline produced, $merge writes them into it.  The   *)
(* model carries no result rows; it keeps one placeholder row for them.    *)
WriteStages == {"$out", "$merge"}

\* the collection after one call on self.col
AfterColCall(call, c) ==
    IF call.op = "aggregate" /\ \E k \in 1..Len(call.stages) : call.stages[k] \in WriteStages
    THEN IF c = << >> THEN << >> ELSE <<[_id |-> "result"]>>
    ELSE c

\* the collection after the calls of a method
AfterColCalls(calls, c) ==
    LET F[k \in 0..Len(calls)] == IF k = 0 THEN c ELSE AfterColCall(calls[k], F[k - 1])
    IN  F[Len(calls)]

---------------------------------------------------------------------------
(* What the queries return.  Amounts are whole numbers in the model, so    *)
(* $round leaves them as they are; a quotient is kept as the pair of its   *)
(* numerator and denominator.  MongoDB leaves the order of $group's output *)
(* and of rows with equal $sort keys unspecified: the model takes the      *)
(* groups in the order a scan of the collection meets them and keeps that  *)
(* order among equal keys, which is one of the orders the server may use.  *)

NoResult == [kind |-> "none"]
QueryError(msg) == [kind |-> "error", message |-> msg]
Rows(rows) == [kind |-> "rows", rows |-> rows]
Value(v) == [kind |-> "value", value |-> v]
Ratio(n, d) == [num |-> n, den |-> d]

\* '$metrics.<f>' of a document; a missing field counts as 0 in $sum
HasMetric(d, f) == f \in DOMAIN d.metrics
Metric(d, f) == IF HasMetric(d, f) THEN d.metrics[f] ELSE 0
HasAmount(d) == HasMetric(d, "amount")
HasUnitPrice(d) == HasMetric(d, "unitPrice")

\* {'$sum': '$metrics.<f>'} over the documents of a group
SumOf(c, f) ==
    LET F[k \in 0..Len(c)] == IF k = 0 THEN 0 ELSE F[k - 1] + Metric(c[k], f)
    IN  F[Len(c)]

\* the _id values of a $group, in the order the scan meets them; ids holds
\* the _id expression's value for each document
GroupKeys(ids) ==
    LET F[k \in 0..Len(ids)] ==
            IF k = 0 THEN << >>
            ELSE IF \E j \in 1..Len(F[k - 1]) : F[k - 1][j] = ids[k]
                 THEN F[k - 1]
                 ELSE Append(F[k - 1], ids[k])
    IN  F[Len(ids)]

\* {'$sort': {'revenue': -1}}
RevenueDescending(a, b) == a.revenue > b.revenue

DateUnsorted(a, b) == FALSE

\* {'$sort': {'_id': 1}}, the _id being the date
DateAscending(a, b) == a.date < b.date

\* whether the key of row a comes strictly before that of row b in a $sort
Before(a, b, sort) ==
    CASE sort = "revenue: -1" -> RevenueDescending(a, b)
      [] sort = "_id: 1" -> DateAscending(a, b)

\* $sort
SortedBy(rows, sort) ==
    LET F[k \in 0..Len(rows)] ==
            IF k = 0 THEN << >>
            ELSE LET prev == F[k - 1]
                     later == {j \in 1..Len(prev) : Before(rows[k], prev[j], sort)}
                     p == IF later = {} THEN Len(prev) + 1
                          ELSE CHOOSE j \in later : \A i \in later : j <= i
                 IN  SubSeq(prev, 1, p - 1) \o <<rows[k]>> \o SubSeq(prev, p, Len(prev))
    IN  F[Len(rows)]

\* $limit
Limit(rows, n) == SubSeq(rows, 1, Min(n, Len(rows)))

\* {'$match': {'metadata.stockCode': {'$exists': True, '$ne': ''}}}
MatchStockCode(d) == "stockCode" \in DOMAIN d.metadata /\ d.metadata.stockCode # ""
StockCode(d) == d.metadata.stockCode

\* the $match and $group stages that top_products and product_performance share
ProductGroups(c) ==
    LET matched == SelectSeq(c, MatchStockCode)
        keys == GroupKeys([k \in 1..Len(matched) |-> StockCode(matched[k])])
    IN  [k \in 1..Len(keys) |->
            LET ds == SelectSeq(matched, LAMBDA d : StockCode(d) = keys[k])
            IN  [stock_code |-> keys[k],
                 first |-> ds[1].metadata.description,
                 revenue |-> SumOf(ds, "amount"),
                 quantity |-> SumOf(ds, "count"),
                 avg_price |-> Ratio(SumOf(ds, "unitPrice"),
                                     Len(SelectSeq(ds, HasUnitPrice))),
                 orders |-> Len(ds)]]

\* aggregations.py 109-146
top_products(c, limit) ==
    LET kept == Limit(SortedBy(ProductGroups(c), "revenue: -1"), limit)
    IN  IF \E k \in 1..Len(kept) : kept[k].quantity = 0
        THEN QueryError("can't $divide by zero")
        ELSE Rows([k \in 1..Len(kept) |->
                     [stock_code |-> kept[k].stock_code,
                      product_name |-> kept[k].first,
                      revenue |-> kept[k].revenue,
                      quantity |-> kept[k].quantity,
                      orders |-> kept[k].orders,
                      avg_price |-> Ratio(kept[k].revenue, kept[k].quantity)]])

\* '$limit': 20 of product_performance, and the 365 of its turnover
PERFORMANCE_LIMIT == 20
TURNOVER_DAYS == 365

\* aggregations.py 412-459
product_performance(c) ==
    LET kept == Limit(SortedBy(ProductGroups(c), "revenue: -1"), PERFORMANCE_LIMIT)
    IN  Rows([k \in 1..Len(kept) |->
                [stock_code |-> kept[k].stock_code,
                 description |-> kept[k].first,
                 revenue |-> kept[k].revenue,
                 quantity |-> kept[k].quantity,
                 orders |-> kept[k].orders,
                 avg_price |-> kept[k].avg_price,
                 turnover |-> Ratio(kept[k].quantity * kept[k].avg_price.num,
                                    TURNOVER_DAYS * kept[k].avg_price.den)]])

\* '$limit': 365 of daily_revenue, scaled down with the days the CSV files span
DAILY_LIMIT == 2

\* {'$dateToString': {'format': '%Y-%m-%d', 'date': '$eventTime'}}: the day
Day(d) == d.eventTime

\* aggregations.py 218-248
daily_revenue(c) ==
    LET keys == GroupKeys([k \in 1..Len(c) |-> Day(c[k])])
        groups == [k \in 1..Len(keys) |->
                      LET ds == SelectSeq(c, LAMBDA d : Day(d) = keys[k])
                      IN  [date |-> keys[k], revenue |-> SumOf(ds, "amount"),
                           orders |-> Len(ds)]]
    IN  Rows(Limit(SortedBy(groups, "_id: 1"), DAILY_LIMIT))

\* aggregations.py 29-40: $group with _id None yields no row on an empty collection
kpi_total_revenue(c) == IF c = << >> THEN 0 ELSE SumOf(c, "amount")

\* aggregations.py 42-44
kpi_total_orders(c) == Len(c)

\* aggregations.py 61-72: $avg takes the documents that have a numeric
\* metrics.amount; with none of them it yields null (den = 0 here)
kpi_average_order_value(c) ==
    IF c = << >> THEN Ratio(0, 1)
    ELSE Ratio(SumOf(c, "amount"), Len(SelectSeq(c, HasAmount)))

\* aggregations.py 463-472, the three KPIs modelled
get_all_kpi(c) ==
    [kind |-> "kpi",
     total_revenue |-> kpi_total_revenue(c),
     total_orders |-> kpi_total_orders(c),
     average_order_value |-> kpi_average_order_value(c)]

\* the values of limit that callers pass to top_products (the default is 10)
Limits == {1, 10}

\* the arguments a call of method m can carry (0: the method takes none)
Params(m) == IF m = "top_products" THEN Limits ELSE {0}

\* what method m returns on collection c.  The rows of the methods not named
\* here are not modelled.
Result(m, limit, c) ==
    CASE m = "top_products" -> top_products(c, limit)
      [] m = "product_performance" -> product_performance(c)
      [] m = "daily_revenue" -> daily_revenue(c)
      [] m = "kpi_total_revenue" -> Value(kpi_total_revenue(c))
      [] m = "kpi_total_orders" -> Value(kpi_total_orders(c))
      [] m = "kpi_average_order_value" ->
             [kind |-> "ratio", value |-> kpi_average_order_value(c)]
      [] m = "get_all_kpi" -> get_all_kpi(c)
      [] OTHER -> [kind |-> "unmodelled"]

\* a method of AggregationPipelines is called
AggregationCall(m) ==
    /\ agg' = m
    /\ \E limit \in Params(m) : qres' = [limit |-> limit, out |-> Result(m, limit, col)]
    /\ col' = AfterColCalls(ColCalls(m), col)
    /\ UNCHANGED <<etl, submitted, hist, fails, cleanup, dashVars, sched, idx>>

\* the documents one loader run builds from the three files
RunDocs ==
    BuildDocs(1, Csv1Rows, 1) \o BuildDocs(2, Csv2Rows, 1) \o BuildDocs(3, Csv3Rows, 1)

\* the collections one loader run can leave behind: any part of its documents
LoadedCollections == {Pick(RunDocs, S) : S \in SUBSET (1..Len(RunDocs))}

Reverse(seq) == [k \in 1..Len(seq) |-> seq[Len(seq) + 1 - k]]

\* the documents a loader run on day 3 builds, from files that list their
\* rows in the order given above or in the opposite order
QueryDocs(rev) ==
    LET rows(src) == IF rev THEN Reverse(GoodRows(src)) ELSE GoodRows(src)
    IN  BuildDocs(1, rows(1), 3) \o BuildDocs(2, rows(2), 3) \o BuildDocs(3, rows(3), 3)

\* the collections the queries are run on: any part of such a run's documents
QueryCollections ==
    {Pick(QueryDocs(rev), S) : rev \in BOOLEAN, S \in SUBSET (1..Len(RunDocs))}

---------------------------------------------------------------------------
(* The index manager (scripts/create_indexes.py).  It takes the server,    *)
(* the database and the collection from the environment (load_dotenv and   *)
(* os.getenv), where the loader and the aggregation layer have them        *)
(* written in the code.                                                    *)

\* create_indexes.py 19-28: the names of the indexes, in order
IndexNames ==
    <<"idx_invoice_no", "idx_customer_id", "idx_customer_date", "idx_date_desc",
      "idx_country", "idx_country_date", "idx_stock_code", "idx_description_text">>

\* a variable of the environment is unset or holds a value: for MONGODB_URI
\* the cluster of the loader's MONGODB_URI or another server
UriSettings == {"unset", "cluster", "elsewhere"}
DbSettings == {"unset", "analytics", "staging"}
CollectionSettings == {"unset", "records", "records_v2"}

\* pymongo.MongoClient(None) connects to localhost:27017
ServerOf(uri) == IF uri = "unset" THEN "localhost" ELSE uri

\* os.getenv(name, default)
getenv(value, default) == IF value = "unset" THEN default ELSE value

\* the collection the loader writes and AggregationPipelines reads
\* (etl_pipeline.py 11-13, aggregations.py 14-16)
ProgramCollection == [server |-> "cluster", db |-> DB_NAME, coll |-> COLLECTION]

\* create_indexes.py 7-9, 13-15
IndexCollection(env) ==
    [server |-> ServerOf(env.uri),
     db |-> getenv(env.db, "analytics"),
     coll |-> getenv(env.coll, "records")]

IndexOff == [pc |-> "off", target |-> ProgramCollection, k |-> 0, made |-> {}]

\* create_indexes.py 11-17
IndexStart(env) ==
    /\ idx.pc = "off"
    /\ idx' = [pc |-> "creating", target |-> IndexCollection(env), k |-> 1, made |-> {}]
    /\ UNCHANGED <<loaderVars, aggVars, dashVars, sched>>

\* create_indexes.py 30-33: col.create_index returns
IndexCreateOk ==
    /\ idx.pc = "creating"
    /\ idx.k <= Len(IndexNames)
    /\ idx' = [idx EXCEPT !.k = @ + 1, !.made = @ \cup {IndexNames[idx.k]}]
    /\ UNCHANGED <<loaderVars, aggVars, dashVars, sched>>

\* create_indexes.py 34-35: col.create_index raises, the warning is printed
IndexCreateRaises ==
    /\ idx.pc = "creating"
    /\ idx.k <= Len(IndexNames)
    /\ idx' = [idx EXCEPT !.k = @ + 1]
    /\ UNCHANGED <<loaderVars, aggVars, dashVars, sched>>

\* create_indexes.py 37-49
IndexDone ==
    /\ idx.pc = "creating"
    /\ idx.k > Len(IndexNames)
    /\ idx' = [idx EXCEPT !.pc = "done"]
    /\ UNCHANGED <<loaderVars, aggVars, dashVars, sched>>

---------------------------------------------------------------------------
(* The dashboard script (dashboard/dashboard.py).  Streamlit runs the      *)
(* script from top to bottom on every rerun.  st.cache_data(ttl) keeps a   *)
(* function's result until ttl seconds after it was stored;                *)
(* st.cache_resource keeps its value for the life of the server process.   *)

\* the load_* functions in the order the script calls them
\* (dashboard.py 203, 272, 294, 341, 369, 398, 429, 474)
LoadFns ==
    <<"load_kpi", "load_revenue_by_source", "load_customer_segmentation",
      "load_top_products", "load_top_countries", "load_top_customers",
      "load_daily_revenue", "load_product_performance">>

LoadFnSet == Elems(LoadFns)

TtlKpiLonger(f) == IF f = "load_kpi" THEN 2 * TTL ELSE TTL

\* the ttl of the st.cache_data decorator of load function f
\* (dashboard.py 93, 107, 114, 121, 128, 135, 142, 149)
Ttl(f) == TTL

NoEntry == [present |-> FALSE, at |-> 0, inst |-> 0]

\* whether st.cache_data still serves entry e of function f at time now
Fresh(f, e, now) == e.present /\ now - e.at < Ttl(f)

ClearDataKpiOnly(dc) == [dc EXCEPT !["load_kpi"] = NoEntry]

\* st.cache_data.clear() (dashboard.py 180)
ClearData(dc) == [f \in DOMAIN dc |-> NoEntry]

GetAggregationsUncached(r, n) == [inst |-> n + 1, resource |-> r, created |-> n + 1]

\* get_aggregations() under st.cache_resource (dashboard.py 80-90): r is the
\* instance held (0: none yet), n the number of instances constructed so far
GetAggregations(r, n) ==
    IF r = 0
    THEN [inst |-> n + 1, resource |-> n + 1, created |-> n + 1]
    ELSE [inst |-> r, resource |-> r, created |-> n]

DashInit ==
    /\ clock = 0
    /\ dataCache = [f \in LoadFnSet |-> NoEntry]
    /\ resource = 0
    /\ created = 0
    /\ dash = [pc |-> 0, pressed |-> FALSE, served |-> "none", refresh_interval |-> 300]
    /\ shown = [f \in LoadFnSet |-> NoEntry]

\* time passes on the server
Tick ==
    /\ clock + TickStep <= MaxClock
    /\ clock' = clock + TickStep
    /\ UNCHANGED <<loaderVars, aggVars, idx, dataCache, resource, created, dash, shown, sched>>

\* the values the "Cache refresh interval" slider is put at: its minimum and
\* its default (dashboard.py 170-176)
SliderValues == {60, 300}

\* a rerun starts and runs the sidebar (dashboard.py 166-181); v is the value
\* the slider returns, which the script assigns to refresh_interval and never
\* reads; press tells whether it was "Clear Cache Now" that triggered the rerun
RerunStart(press, v) ==
    /\ dash.pc = 0
    /\ dash' = [pc |-> 1, pressed |-> press, served |-> "none", refresh_interval |-> v]
    /\ dataCache' = IF press THEN ClearData(dataCache) ELSE dataCache
    /\ UNCHANGED <<loaderVars, aggVars, idx, clock, resource, created, shown, sched>>

AfterLoad(k) == IF k = Len(LoadFns) THEN 0 ELSE k + 1

\* the script calls the next load_* function and st.cache_data has its result
LoadHit ==
    /\ dash.pc \in 1..Len(LoadFns)
    /\ LET f == LoadFns[dash.pc]
       IN  /\ Fresh(f, dataCache[f], clock)
           /\ shown' = [shown EXCEPT ![f] = dataCache[f]]
    /\ dash' = [dash EXCEPT !.pc = AfterLoad(dash.pc), !.served = "cache"]
    /\ UNCHANGED <<loaderVars, aggVars, idx, clock, dataCache, resource, created, sched>>

\* the script calls the next load_* function and its body runs: it takes the
\* AggregationPipelines instance, queries, and the result is stored
LoadMiss ==
    /\ dash.pc \in 1..Len(LoadFns)
    /\ LET f == LoadFns[dash.pc]
           got == GetAggregations(resource, created)
           entry == [present |-> TRUE, at |-> clock, inst |-> got.inst]
       IN  /\ ~Fresh(f, dataCache[f], clock)
           /\ resource' = got.resource
           /\ created' = got.created
           /\ dataCache' = [dataCache EXCEPT ![f] = entry]
           /\ shown' = [shown EXCEPT ![f] = entry]
    /\ dash' = [dash EXCEPT !.pc = AfterLoad(dash.pc), !.served = "query"]
    /\ UNCHANGED <<loaderVars, aggVars, idx, clock, sched>>

---------------------------------------------------------------------------
(* The scheduler (scripts/scheduler.py).  Time is counted in polls of the  *)
(* loop (one time.sleep(60)); a day has DayLen of them and SCHEDULE_TIME   *)
(* is the poll of the day at which the job is due.                         *)

SchedOff == [pc |-> "off", now |-> 0, start |-> 0, next_run |-> 0,
             invoked |-> << >>, overrun |-> FALSE]

NextAtDrift(t) == t + DayLen

\* the job's next_run as schedule's every().day.at(SCHEDULE_TIME) sets it at
\* time t: the first SCHEDULE_TIME after t
NextAt(t) ==
    LET today == (t \div DayLen) * DayLen + SCHEDULE_TIME
    IN  IF today > t THEN today ELSE today + DayLen

\* scheduler.py 21-25: the job is registered and the loop is entered
SchedStart(t0) ==
    /\ sched.pc = "off"
    /\ sched' = [SchedOff EXCEPT !.pc = "loop", !.now = t0, !.start = t0,
                                 !.next_run = NextAt(t0)]
    /\ UNCHANGED <<loaderVars, aggVars, idx, dashVars>>

\* scheduler.py 28-30: run_pending() finds nothing due; sleep
SchedIdle ==
    /\ sched.pc = "loop"
    /\ sched.now < sched.next_run
    /\ sched.now + 1 <= MaxDays * DayLen
    /\ sched' = [sched EXCEPT !.now = @ + 1]
    /\ UNCHANGED <<loaderVars, aggVars, idx, dashVars>>

\* scheduler.py 16-19, 28-30: run_pending() finds the job due and calls
\* run_etl, whose subprocess.run blocks for d polls and ends with exit code
\* code; schedule then sets next_run; sleep
SchedRun(d, code) ==
    /\ sched.pc = "loop"
    /\ sched.now >= sched.next_run
    /\ sched.now + d + 1 <= MaxDays * DayLen
    /\ sched' = [sched EXCEPT !.now = @ + d + 1,
                              !.next_run = NextAt(sched.now + d),
                              !.invoked = Append(@, [at |-> sched.now, code |-> code]),
                              !.overrun = @ \/ NextAt(sched.now) <= sched.now + d]
    /\ UNCHANGED <<loaderVars, aggVars, idx, dashVars>>

---------------------------------------------------------------------------
(* The loader and the cleanup script on the collection.                    *)

\* the loader and the cleanup script before they are first started
LoaderInit ==
    /\ etl = EtlIdle
    /\ submitted = << >>
    /\ hist = [k |-> 0, clean |-> TRUE]
    /\ fails = 0
    /\ cleanup = CleanupIdle

Init ==
    /\ col = << >>
    /\ LoaderInit
    /\ agg = "none"
    /\ qres = [limit |-> 0, out |-> NoResult]
    /\ DashInit
    /\ sched = SchedOff
    /\ idx = IndexOff

Next ==
    \/ EtlStart
    \/ \E f \in FileStates : Load1Enter(f)
    \/ Load1ChunkRaises
    \/ Load1InsertOk
    \/ Load1Done
    \/ \E s \in {2, 3}, f \in FileStates : LoadEnter(s, f)
    \/ \E s \in {2, 3} : BatchInsertOk(s)
    \/ \E s \in {2, 3} : BatchDone(s)
    \/ EtlSummary
    \/ CleanupStart
    \/ \E r \in Responses : CleanupInput(r)
    \/ CleanupDrop
    \/ CleanupCancel

Spec == Init /\ [][Next]_vars

(* The loader alone, with insert_many calls that raise.                    *)
NextInsert ==
    \/ EtlStart
    \/ \E f \in FileStates : Load1Enter(f)
    \/ Load1ChunkRaises
    \/ Load1InsertOk
    \/ \E S \in SUBSET (1..CHUNK_SIZE) : Load1InsertFail(S)
    \/ Load1Done
    \/ \E s \in {2, 3}, f \in FileStates : LoadEnter(s, f)
    \/ \E s \in {2, 3} : BatchInsertOk(s)
    \/ \E s \in {2, 3}, S \in SUBSET (1..BATCH_SIZE) : BatchInsertFail(s, S)
    \/ \E s \in {2, 3} : BatchDone(s)
    \/ EtlSummary

SpecInsert == Init /\ [][NextInsert]_vars


(* The aggregation layer on a collection the loader has filled.           *)
InitAgg ==
    /\ col \in LoadedCollections
    /\ LoaderInit
    /\ agg = "none"
    /\ qres = [limit |-> 0, out |-> NoResult]
    /\ DashInit
    /\ sched = SchedOff
    /\ idx = IndexOff

NextAgg == \E m \in Methods : AggregationCall(m)

SpecAgg == InitAgg /\ [][NextAgg]_vars

(* The queries of the aggregation layer and what they return.             *)
InitQuery ==
    /\ col \in QueryCollections
    /\ LoaderInit
    /\ agg = "none"
    /\ qres = [limit |-> 0, out |-> NoResult]
    /\ DashInit
    /\ sched = SchedOff
    /\ idx = IndexOff

SpecQuery == InitQuery /\ [][NextAgg]_vars

(* The index manager.                                                      *)
NextIndex ==
    \/ \E u \in UriSettings, d \in DbSettings, c \in CollectionSettings :
           IndexStart([uri |-> u, db |-> d, coll |-> c])
    \/ IndexCreateOk
    \/ IndexCreateRaises
    \/ IndexDone

SpecIndex == Init /\ [][NextIndex]_vars

(* The dashboard.                                                          *)
NextDash ==
    \/ Tick
    \/ \E press \in BOOLEAN, v \in SliderValues : RerunStart(press, v)
    \/ LoadHit
    \/ LoadMiss

SpecDash == Init /\ [][NextDash]_vars

(* The scheduler.                                                          *)
NextSched ==
    \/ \E t0 \in 0..(DayLen - 1) : SchedStart(t0)
    \/ SchedIdle
    \/ \E d \in 0..MaxRunPolls, code \in {0, 1} : SchedRun(d, code)

SpecSched == Init /\ [][NextSched]_vars

---------------------------------------------------------------------------
(* Properties of the loader and the cleanup script.                        *)

FiveFields == {"source", "entity", "metrics", "metadata", "eventTime"}

\* the positions of col whose document comes from source id sid
FromSource(c, sid) == {k \in 1..Len(c) : c[k].source.sourceId = sid}

\* C1: every document handed to insert_many has the five top-level fields
\* source, entity, metrics, metadata and eventTime and the sourceId of the
\* loader that built it, and every document of the collection has the five
\* fields and one of the three sourceIds.
C1_DocumentShape ==
    /\ \A j \in 1..Len(submitted) : \A k \in 1..Len(submitted[j].docs) :
          LET d == submitted[j].docs[k]
          IN  /\ FiveFields \subseteq DOMAIN d
              /\ d.source.sourceId =
                    (CASE submitted[j].s = 1 -> "source1"
                       [] submitted[j].s = 2 -> "source2"
                       [] submitted[j].s = 3 -> "source3")
    /\ \A k \in 1..Len(col) :
          /\ FiveFields \subseteq DOMAIN col[k]
          /\ col[k].source.sourceId \in {"source1", "source2", "source3"}

\* documents of all three sources are in the collection after a cleanup
\* dropped it and the loader ran again
C1_Witness ==
    /\ cleanup.message = "Kolekcja usunieta"
    /\ FromSource(col, "source1") # {}
    /\ FromSource(col, "source2") # {}
    /\ FromSource(col, "source3") # {}

\* C5: the step of cleanup_duplicates that follows the operator's response
\* empties the collection and reports the drop when the upper-cased response
\* is TAK, and otherwise prints "Anulowano" and leaves the collection as it
\* is; no other step of the loader or the cleanup script empties a non-empty
\* collection.
C5_DropOnlyOnTak ==
    [][ /\ (cleanup.pc = "answered" /\ cleanup'.pc = "idle") =>
            IF upper(cleanup.response) = <<"T", "A", "K">>
            THEN col' = << >> /\ cleanup'.message = "Kolekcja usunieta"
            ELSE col' = col /\ cleanup'.message = "Anulowano"
        /\ (col # << >> /\ col' = << >>) =>
            (cleanup.pc = "answered" /\ upper(cleanup.response) = <<"T", "A", "K">>)
      ]_vars

\* the operator sees "Anulowano" and the loaded collection is still there
C5_Witness == cleanup.message = "Anulowano" /\ Len(col) = 8

\* every row of the three CSV files has a document in the collection
AllSourcesLoaded(c) ==
    \A s \in 1..3 : \A r \in 1..Len(GoodRows(s)) :
        \E k \in 1..Len(c) :
            /\ c[k].source.sourceId = SourceId(s)
            /\ c[k].source.externalId = BuildDoc(s, GoodRows(s)[r], 0).source.externalId

\* C6: after a confirmed run of cleanup_duplicates the collection again
\* holds the documents of the three sources.
C6_ReloadedAfterDrop ==
    (cleanup.pc = "idle" /\ cleanup.message = "Kolekcja usunieta") => AllSourcesLoaded(col)

\* the insert_many calls that loader s has made in this run
SubmittedBy(s) == SelectSeq(submitted, LAMBDA b : b.s = s)

\* the chunk numbers / batch offsets a loader goes through before offset n
Offsets(s, n) == IF s = 1 THEN [j \in 1..n |-> j - 1]
                 ELSE [j \in 1..(n \div BATCH_SIZE) |-> (j - 1) * BATCH_SIZE]

NumBatches(s) ==
    LET size == IF s = 1 THEN CHUNK_SIZE ELSE BATCH_SIZE
    IN  (Len(GoodRows(s)) + size - 1) \div size

\* C7: a loader hands every batch to insert_many exactly once, in order,
\* whether or not a call raised: while it runs, the calls made are those of
\* the offsets before the current one, each once; when it has completed they
\* are all the batches of the source; and it has printed one error per call
\* that raised.
C7_NoRetry ==
    /\ \A s \in 1..3 :
          LET calls == SubmittedBy(s)
          IN  /\ (etl.pc = "chunk" /\ s = 1) =>
                    [j \in 1..Len(calls) |-> calls[j].n] = Offsets(1, etl.chunk_num)
              /\ (etl.pc = "batch" /\ etl.s = s) =>
                    /\ [j \in 1..Len(calls) |-> calls[j].n] = Offsets(s, etl.i)
                    /\ \A j \in 1..Len(calls) : calls[j].docs = Batch(etl.docs, calls[j].n)
              /\ etl.status[s] = "loaded" =>
                    /\ Len(calls) = NumBatches(s)
                    /\ \A j, k \in 1..Len(calls) : calls[j].n = calls[k].n => j = k
    /\ etl.errors = Len(SelectSeq(submitted, LAMBDA b : b.raised))

\* a loader has completed although an insert_many call before its last one raised
C7_Witness ==
    \E s \in 1..3 :
        /\ etl.status[s] = "loaded"
        /\ Len(SubmittedBy(s)) = 2
        /\ SubmittedBy(s)[1].raised
        /\ ~SubmittedBy(s)[2].raised

\* how many documents of the collection were built from row r of source s
Copies(c, s, r) ==
    Cardinality({k \in 1..Len(c) :
                    \E t \in 1..MaxRuns : c[k] = BuildDoc(s, GoodRows(s)[r], t)})

\* C8: when the loader has run k times without an error since the collection
\* was last empty, and no cleanup happened in between, the collection holds
\* k documents for every CSV row and nothing else.
C8_NotIdempotent ==
    (etl.pc = "idle" /\ hist.clean) =>
        /\ \A s \in 1..3 : \A r \in 1..Len(GoodRows(s)) : Copies(col, s, r) = hist.k
        /\ Len(col) = hist.k * (Len(Csv1Rows) + Len(Csv2Rows) + Len(Csv3Rows))

\* two successful runs in a row: two documents per row
C8_Witness == etl.pc = "idle" /\ hist.clean /\ hist.k = 2 /\ Copies(col, 2, 1) = 2

\* C9: a loader that finds its file missing returns 0 without an insert_many
\* call and without touching the collection, run_etl goes on with the next
\* loader, and at the summary all three loaders have run.
C9_MissingFile ==
    /\ [](\A s \in 1..3 :
            /\ etl.status[s] = "missing" =>
                  etl.totals[s] = 0 /\ SubmittedBy(s) = << >>
            /\ etl.pc = "summary" => etl.status[s] # "pending")
    /\ [][\A s \in 1..3 :
            (etl.pc = "load" /\ etl.s = s /\ etl'.status[s] = "missing") =>
                /\ col' = col
                /\ submitted' = submitted
                /\ etl'.pc = IF s = 3 THEN "summary" ELSE "load"
                /\ etl'.s = IF s = 3 THEN 0 ELSE s + 1
         ]_vars

\* source 2's file was missing; sources 1 and 3 are loaded and in the collection
C9_Witness ==
    /\ etl.pc = "summary"
    /\ etl.status = <<"loaded", "missing", "loaded">>
    /\ Cardinality(FromSource(col, "source1")) = Len(Csv1Rows)
    /\ FromSource(col, "source2") = {}
    /\ Cardinality(FromSource(col, "source3")) = Len(Csv3Rows)

---------------------------------------------------------------------------
(* Properties of the aggregation layer, the dashboard and the scheduler.   *)

\* C2: no call of a method of AggregationPipelines changes the documents of
\* the collection.
C2_ReadOnly == [][col' = col]_vars

\* get_all_aggregations has been called on a collection holding a full load
C2_Witness == agg = "get_all_aggregations" /\ col = RunDocs

\* C3 as stated: a result on the page is never older than 300 seconds
\* (looked at between reruns, when the page is complete).
C3_DisplayedNeverOlder ==
    dash.pc = 0 => \A f \in LoadFnSet : shown[f].present => clock - shown[f].at <= 300

\* C3, amended: a load_* call made less than 300 seconds after its cached
\* result was stored returns that result and leaves the cache alone; a call
\* made more than 300 seconds after it queries again and stores the new
\* result; so the result a call returns is less than 300 seconds old at that
\* moment.
C3_CachedFor300 ==
    [][\A k \in 1..Len(LoadFns) :
          (dash.pc = k /\ dash'.pc # k) =>
              LET f == LoadFns[k]
                  e == dataCache[f]
              IN  /\ (e.present /\ clock - e.at < 300) =>
                        /\ dash'.served = "cache"
                        /\ shown'[f] = e
                        /\ dataCache' = dataCache
                  /\ (e.present /\ clock - e.at > 300) =>
                        /\ dash'.served = "query"
                        /\ dataCache'[f].at = clock
                        /\ shown'[f].at = clock
                  /\ clock - shown'[f].at < 300
      ]_vars

\* load_kpi has just been served from the cache, 200 seconds after the query
C3_Witness ==
    /\ dash.pc = 2
    /\ dash.served = "cache"
    /\ shown["load_kpi"].present
    /\ clock - shown["load_kpi"].at = 200

\* C10: at most one AggregationPipelines instance is ever constructed, and
\* every load_* result cached or on the page was queried through it.
C10_SingleInstance ==
    /\ created <= 1
    /\ resource = created
    /\ \A f \in LoadFnSet :
          /\ dataCache[f].present => dataCache[f].inst = 1
          /\ shown[f].present => shown[f].inst = 1

\* a rerun started by "Clear Cache Now", after the ttl had passed, is over:
\* every function has queried again and there is still one instance
C10_Witness ==
    /\ dash.pc = 0
    /\ dash.pressed
    /\ clock >= 300
    /\ created = 1
    /\ \A f \in LoadFnSet : shown[f].present /\ shown[f].at > 0

\* the time of day d's SCHEDULE_TIME
DueTime(d) == d * DayLen + SCHEDULE_TIME

\* the invocations of the loader made on day d
InvokedOn(d) == {j \in 1..Len(sched.invoked) : sched.invoked[j].at \div DayLen = d}

\* on no day is the loader invoked twice, and every invocation is made at
\* its day's SCHEDULE_TIME
AtMostOncePerDay ==
    \A d \in 0..MaxDays :
        /\ Cardinality(InvokedOn(d)) <= 1
        /\ \A j \in InvokedOn(d) : sched.invoked[j].at = DueTime(d)

\* on every day whose SCHEDULE_TIME passed while the loop was running, the
\* loader was invoked
NoDaySkipped ==
    \A d \in 0..MaxDays :
        (sched.start < DueTime(d) /\ DueTime(d) < sched.now) => InvokedOn(d) # {}

OncePerDay == AtMostOncePerDay /\ NoDaySkipped

\* C4 as stated: while the scheduler runs, the loader is invoked exactly once
\* per day at SCHEDULE_TIME, never twice in a day and never skipping a day.
C4_OncePerDay == sched.pc = "loop" => OncePerDay

\* C4, amended: the loader is never invoked twice in a day and only at
\* SCHEDULE_TIME, and no day is skipped as long as no loader run was still
\* going at a SCHEDULE_TIME; the exit code of a run makes no difference.
C4_OncePerDayUnlessOverrun ==
    sched.pc = "loop" => AtMostOncePerDay /\ (~sched.overrun => NoDaySkipped)

\* three days in a row with one invocation each, the first of which failed
C4_Witness ==
    /\ ~sched.overrun
    /\ Len(sched.invoked) = 3
    /\ sched.invoked[1].code = 1
    /\ sched.invoked[3].at = sched.invoked[1].at + 2 * DayLen

---------------------------------------------------------------------------
(* The results of the queries (SpecQuery).                                 *)

\* the documents of c, those of each source in the opposite order: what the
\* collection holds when the CSV files list their rows the other way round
OtherOrder(c) ==
    LET from(src) == SelectSeq(Reverse(c), LAMBDA d : d.source.sourceId = SourceId(src))
    IN  from(1) \o from(2) \o from(3)

\* C11 as stated: a query returns the same result in whatever order the
\* documents were inserted.
C11_SameInAnyOrder ==
    agg # "none" => qres.out = Result(agg, qres.limit, OtherOrder(col))

\* the queries without $first and without a $limit behind a $sort on sums
OrderFree ==
    {"daily_revenue", "kpi_total_revenue", "kpi_total_orders",
     "kpi_average_order_value", "get_all_kpi"}

\* two products with the same revenue
RevenueTies(c) ==
    LET g == ProductGroups(c)
    IN  \E i, j \in 1..Len(g) : i # j /\ g[i].revenue = g[j].revenue

\* a result without what $first picked
Unnamed(out) ==
    IF out.kind = "rows"
    THEN Rows([k \in 1..Len(out.rows) |->
                  [f \in DOMAIN out.rows[k] \ {"product_name", "description"} |->
                      out.rows[k][f]]])
    ELSE out

\* C11, amended: whatever was called before, a query returns what its
\* pipeline yields on the collection as it is stored; that is the same for
\* every order of insertion for the KPIs and daily_revenue, and for
\* top_products and product_performance when no two products have the same
\* revenue, apart from the name that $first picks.
C11_StatelessQueries ==
    agg # "none" =>
        /\ qres.out = Result(agg, qres.limit, col)
        /\ agg \in OrderFree => qres.out = Result(agg, qres.limit, OtherOrder(col))
        /\ (agg \in {"top_products", "product_performance"} /\ ~RevenueTies(col)) =>
              Unnamed(qres.out) = Unnamed(Result(agg, qres.limit, OtherOrder(col)))

\* top_products, called after another query, returns rows that differ from
\* those of the other order only in the product name
C11_Witness ==
    /\ agg = "top_products"
    /\ qres.limit = 1
    /\ qres.out.kind = "rows"
    /\ ~RevenueTies(col)
    /\ qres.out # Result(agg, 1, OtherOrder(col))

\* the days on which the collection has documents
Days(c) == {Day(c[k]) : k \in 1..Len(c)}

\* the n most recent of them
MostRecent(days, n) == {d \in days : Cardinality({e \in days : e > d}) < n}

\* C15: when the collection covers more days than the limit of
\* daily_revenue, the rows returned are those of the most recent days, in
\* ascending order of date.
C15_LastDays ==
    (agg = "daily_revenue" /\ Cardinality(Days(col)) > DAILY_LIMIT) =>
        LET rows == qres.out.rows
        IN  /\ {rows[k].date : k \in 1..Len(rows)} = MostRecent(Days(col), DAILY_LIMIT)
            /\ \A j, k \in 1..Len(rows) : j < k => rows[j].date < rows[k].date

\* C19: on a collection that is not empty, the average order value of
\* get_all_kpi is its total revenue divided by its total orders.
C19_AverageIsRevenuePerOrder ==
    (agg = "get_all_kpi" /\ col # << >>) =>
        /\ qres.out.average_order_value.den # 0
        /\ qres.out.average_order_value.num * qres.out.total_orders
              = qres.out.total_revenue * qres.out.average_order_value.den

---------------------------------------------------------------------------
(* The index manager (SpecIndex).                                          *)

\* C12: whenever create_indexes runs, the collection it declares its
\* indexes on is the one the loader writes and the aggregation layer reads.
C12_IndexesOnProgramCollection ==
    idx.pc # "off" => idx.target = ProgramCollection

---------------------------------------------------------------------------
(* The loader's counts and its handling of errors (Spec, SpecInsert).      *)

\* the number of documents that the calls of loader s wrote in this run
WrittenBy(s) ==
    LET F[k \in 0..Len(submitted)] ==
            IF k = 0 THEN 0
            ELSE F[k - 1] + (IF submitted[k].s = s THEN submitted[k].written ELSE 0)
    IN  F[Len(submitted)]

\* C13: the count a loader returns, and the TOTAL of run_etl's summary, are
\* the number of documents this run added to the collection.
C13_CountsAreDocumentsAdded ==
    /\ \A s \in 1..3 : etl.status[s] = "loaded" => etl.totals[s] = WrittenBy(s)
    /\ etl.pc = "summary" =>
          etl.grand_total = WrittenBy(1) + WrittenBy(2) + WrittenBy(3)

\* C14: an error while loading a source never ends run_etl: the process
\* ends only after its summary.
C14_ErrorsNeverEndTheRun ==
    [][(etl.pc # "idle" /\ etl'.pc = "idle") => etl.pc = "summary"]_vars

\* the documents of a loader's calls, one call after the other
Concat(calls) ==
    LET F[k \in 0..Len(calls)] == IF k = 0 THEN << >> ELSE F[k - 1] \o calls[k].docs
    IN  F[Len(calls)]

\* C20: the calls of a loader carry the documents of its file in order, each
\* once: every call but the last holds BATCH_SIZE documents (CHUNK_SIZE for
\* source 1), none is empty, and a loader that has completed has submitted
\* the document of every row.
C20_BatchesCoverDocs ==
    \A s \in 1..3 :
        LET calls == SubmittedBy(s)
            all == BuildDocs(s, GoodRows(s), etl.now)
            size == IF s = 1 THEN CHUNK_SIZE ELSE BATCH_SIZE
            sent == Concat(calls)
        IN  /\ \A j \in 1..Len(calls) :
                  /\ calls[j].docs # << >>
                  /\ Len(calls[j].docs) <= size
                  /\ j < Len(calls) => Len(calls[j].docs) = size
            /\ Len(sent) <= Len(all)
            /\ sent = SubSeq(all, 1, Len(sent))
            /\ etl.status[s] = "loaded" => sent = all

\* sources 1 and 2 have both gone out in a full call and a shorter last one
C20_Witness ==
    /\ etl.status[1] = "loaded" /\ etl.status[2] = "loaded"
    /\ Len(SubmittedBy(1)) = 2 /\ Len(SubmittedBy(2)) = 2
    /\ Len(SubmittedBy(1)[1].docs) = CHUNK_SIZE
    /\ Len(SubmittedBy(2)[2].docs) < BATCH_SIZE

\* C18: the confirmed step of cleanup_duplicates leaves every document that
\* was in the collection in it exactly once.
C18_KeepsOneCopy ==
    [][(cleanup.pc = "answered" /\ cleanup'.pc = "idle"
            /\ cleanup'.message = "Kolekcja usunieta") =>
          \A k \in 1..Len(col) :
              Cardinality({j \in 1..Len(col') : col'[j] = col[k]}) = 1]_vars

---------------------------------------------------------------------------
(* The sidebar of the dashboard (SpecDash).                                *)

\* the load_* function that the script called last in the current rerun
LastLoaded == LoadFns[IF dash.pc = 0 THEN Len(LoadFns) ELSE dash.pc - 1]

\* C16: with the slider at value v, a load_* call is served from the cache
\* only while the cached result is less than v seconds old.
C16_SliderSetsWindow ==
    dash.served = "cache" => clock - shown[LastLoaded].at < dash.refresh_interval

\* C17: in the rerun that a press of "Clear Cache Now" triggers, no load_*
\* function still to be called has a cached result, and every load_* call
\* queries the database; so whatever is cached or served from the cache
\* afterwards was queried after the press.
C17_ClearedBeforeLoads ==
    /\ [](dash.pressed =>
            \A k \in 1..Len(LoadFns) :
                (dash.pc # 0 /\ k >= dash.pc) => ~dataCache[LoadFns[k]].present)
    /\ [][(dash.pressed /\ dash.pc # 0 /\ dash'.pc # dash.pc) =>
             dash'.served = "query"]_vars

\* the rerun of a press has queried load_kpi again at time 100 although the
\* result cached at time 0, still on the page for the next function, was
\* within its 300 seconds
C17_Witness ==
    /\ dash.pressed
    /\ dash.pc = 2
    /\ dash.served = "query"
    /\ clock = 100
    /\ shown[LoadFns[1]].at = 100
    /\ shown[LoadFns[2]].present /\ shown[LoadFns[2]].at = 0

=============================================================================
